---- MODULE Spec2Model ----
(***************************************************************************)
(* State-machine model of src/App.tsx: the tenant shell (React Native).    *)
(*                                                                         *)
(* Strings are sequences: a tenant text is a sequence of characters, a URL *)
(* is a sequence of tokens ("https://", the tenant's characters, the fixed *)
(* domain suffix, then path segments).  The empty string is <<>>.          *)
(* AsyncStorage is a serial store: operations complete in the order they   *)
(* were issued, each one succeeding or rejecting.                          *)
(***************************************************************************)
EXTENDS Naturals, Sequences, FiniteSets

\* ---------------------------------------------------------------- bounds
MaxPending == 2    \* storage operations in flight at once
MaxTimers == 2     \* refresh timers pending at once

\* ------------------------------------------------------------- strings
\* The texts the user types and the values the store holds at first launch:
\* empty, blank, plain, with leading and with trailing whitespace.
Texts == {<<>>, <<" ">>, <<"a">>, <<" ", "a">>, <<"b", " ">>}

IsWhitespace(c) == c = " "

RECURSIVE TrimStart(_)
TrimStart(s) ==
  IF s = <<>> THEN <<>>
  ELSE IF IsWhitespace(Head(s)) THEN TrimStart(Tail(s)) ELSE s

RECURSIVE TrimEnd(_)
TrimEnd(s) ==
  IF s = <<>> THEN <<>>
  ELSE IF IsWhitespace(s[Len(s)]) THEN TrimEnd(SubSeq(s, 1, Len(s) - 1)) ELSE s

\* String.prototype.trim
Trim(s) == TrimEnd(TrimStart(s))

\* String.prototype.includes, on token sequences
Includes(s, sub) ==
  \E i \in 0..Len(s) : i + Len(sub) <= Len(s) /\ SubSeq(s, i + 1, i + Len(sub)) = sub

Scheme == "https://"

DomainSuffix == ".olympicatechnologies.co.in"

TenantNotFound == "Tenant not found"

\* ------------------------------------------------------------- storage
\* The record under TENANT_KEY: absent, or a string value.
NoRecord == [present |-> FALSE, val |-> <<>>]

Record(v) == [present |-> TRUE, val |-> v]

GetOp == [op |-> "get", val |-> <<>>]

SetOp(v) == [op |-> "set", val |-> v]

RemoveOp == [op |-> "remove", val |-> <<>>]

\* The store after operation o has run successfully.
ApplyOp(st, o) ==
  IF o.op = "set" THEN Record(o.val)
  ELSE IF o.op = "remove" THEN NoRecord
  ELSE st

\* The store after the operations q, still in flight when the process dies,
\* have each either run (oks[i]) or been lost.
RECURSIVE FlushStore(_, _, _)
FlushStore(st, q, oks) ==
  IF q = <<>> THEN st
  ELSE FlushStore(IF Head(oks) THEN ApplyOp(st, Head(q)) ELSE st, Tail(q), Tail(oks))

\* --------------------------------------------------------------- state
VARIABLES
  platform,      \* Platform.OS
  tenant,        \* useState: the text of the entry field
  url,           \* useState: the resolved origin, <<>> when none
  showReset,     \* useState
  errorMessage,  \* useState: "" or "Tenant not found"
  refreshing,    \* useState
  store,         \* AsyncStorage's record under TENANT_KEY
  pending,       \* storage operations in flight, oldest first
  timers,        \* setTimeout callbacks of onRefresh not yet run
  navUrl,        \* the URL of the surface's most recent navigation event
  handlerUrl,    \* the url captured by the installed backAction closure
  alert,         \* the exit confirmation prompt is open
  exited,        \* the process has terminated
  last,          \* history: the event handled last, and its outcome
  lastSubmit,    \* history: the trimmed text of this session's last accepted submit
  carried        \* history: the previous session's lastSubmit, until restored

vars == <<platform, tenant, url, showReset, errorMessage, refreshing, store,
          pending, timers, navUrl, handlerUrl, alert, exited, last,
          lastSubmit, carried>>

Event(e, ok) == [ev |-> e, ok |-> ok]

NoSubmit == [phase |-> "none", t |-> <<>>, w |-> "none"]

\* The history of a restored submit lasts for the one state after the
\* startup read completed.
Settle(c) == IF c.phase = "loaded" THEN NoSubmit ELSE c

\* ---------------------------------------------------------------- views
\* Seeded fault: the entry form is rendered whenever the WebView is not.
FormShown_WhenNoWebView == url = <<>> \/ errorMessage # ""

\* render: the entry form is shown iff url is empty
FormShown == url = <<>>

\* render: the WebView is mounted iff url is non-empty and no error is shown
WebViewMounted == url # <<>> /\ errorMessage = ""

\* render: a "Reset Tenant" button is on screen
ResetButtonShown == url # <<>> /\ (errorMessage # "" \/ showReset)

\* The user can touch the screen: the process runs and no modal prompt is open.
Interactive == ~exited /\ ~alert

Init ==
  /\ platform \in {"ios", "android"}
  /\ tenant = <<>>
  /\ url = <<>>
  /\ showReset = FALSE
  /\ errorMessage = ""
  /\ refreshing = FALSE
  /\ store \in {NoRecord} \cup {Record(v) : v \in Texts}
  /\ pending = <<GetOp>>
  /\ timers = 0
  /\ navUrl = <<>>
  /\ handlerUrl = <<>>
  /\ alert = FALSE
  /\ exited = FALSE
  /\ last = Event("mount", TRUE)
  /\ lastSubmit = NoSubmit
  /\ carried = NoSubmit

\* ------------------------------------------------- pieces of the handlers
\* loadTenant: if (savedTenant && savedTenant.trim())
LoadTenantUsable(saved) ==
  saved.present /\ saved.val # <<>> /\ Trim(saved.val) # <<>>

\* loadTenant: `https://${savedTenant.trim()}.olympicatechnologies.co.in`
LoadConstructedUrl(saved) == <<Scheme>> \o Trim(saved) \o <<DomainSuffix>>

\* Seeded fault: loadTenant sets the url and leaves the tenant text empty.
LoadTenantValue_Empty(saved) == <<>>

\* loadTenant: setTenant(savedTenant.trim())
LoadTenantValue(saved) == Trim(saved)

\* Seeded fault: if (tenant), the text is not trimmed before the test.
SubmitAccepted_NonEmpty(t) == t # <<>>

\* handleSubmit: if (tenant.trim())
SubmitAccepted(t) == Trim(t) # <<>>

\* Seeded fault: the URL is built from the text as typed.
SubmitConstructedUrl_Untrimmed(t) == <<Scheme>> \o t \o <<DomainSuffix>>

\* handleSubmit: `https://${tenant.trim()}.olympicatechnologies.co.in`
SubmitConstructedUrl(t) == <<Scheme>> \o Trim(t) \o <<DomainSuffix>>

\* Seeded fault: setItem(TENANT_KEY, tenant), the text as typed.
SubmitStoredValue_Untrimmed(t) == t

\* Seeded fault: setItem(TENANT_KEY, constructedUrl), the URL in place of the tenant.
SubmitStoredValue_StoresUrl(t) == SubmitConstructedUrl(t)

\* handleSubmit: AsyncStorage.setItem(TENANT_KEY, tenant.trim())
SubmitStoredValue(t) == Trim(t)

\* Seeded fault: the catch block reports the failure to the user.
SubmitCatch_SurfacesError(em) == TenantNotFound

\* handleSubmit: the catch block logs; errorMessage is what it was
SubmitCatch(em) == em

\* Seeded fault: only the log-in marker is looked for.
IsAuthUrl_LoginOnly(u) == Includes(u, <<"/accounts", "/log-in">>)

\* handleWebViewNavigation: the two markers
IsAuthUrl(u) ==
  \/ Includes(u, <<"/accounts", "/log-out">>)
  \/ Includes(u, <<"/accounts", "/log-in">>)

\* WebView onLoad={() => setShowReset(false)}
OnLoadShowReset(sr) == FALSE

\* Seeded fault: handleWebViewError sets the message and leaves showReset alone.
ErrorShowReset_Unchanged(sr) == sr

\* handleWebViewError: setShowReset(true)
ErrorShowReset(sr) == TRUE

\* Seeded fault: useEffect(..., []), the listener installed at mount stays.
BackHandlerEffect_MountOnly(old, new) == old

\* useEffect(..., [url]): the listener is installed again with the new url
BackHandlerEffect(old, new) == new

\* backAction: if (url)
BackActionIntercepts(h) == h # <<>>

\* Navigation targets the surface reports: the origin followed by a path.
NavPaths ==
  { <<>>,
    <<"/accounts", "/log-in">>,
    <<"/accounts", "/log-out">>,
    <<"/log-in", "/accounts">>,
    <<"/home", "/accounts", "/log-in", "/next">> }

\* The index of the set operation issued last among q (0 when none).
LastSetIndex(q) ==
  LET S == {i \in 1..Len(q) : q[i].op = "set"}
  IN IF S = {} THEN 0 ELSE CHOOSE i \in S : \A j \in S : j <= i

\* ---------------------------------------------------------------- actions
\* TextInput onChangeText={setTenant}
ChangeText ==
  /\ Interactive
  /\ FormShown
  /\ \E t \in Texts : tenant' = t
  /\ last' = Event("changeText", TRUE)
  /\ carried' = Settle(carried)
  /\ UNCHANGED <<platform, url, showReset, errorMessage, refreshing, store,
                 pending, timers, navUrl, handlerUrl, alert, exited, lastSubmit>>

\* handleSubmit, up to its await
HandleSubmit ==
  /\ Interactive
  /\ FormShown
  /\ \/ /\ SubmitAccepted(tenant)
        /\ Len(pending) < MaxPending
        /\ url' = SubmitConstructedUrl(tenant)
        /\ showReset' = FALSE
        /\ errorMessage' = ""
        /\ pending' = Append(pending, SetOp(SubmitStoredValue(tenant)))
        /\ handlerUrl' = BackHandlerEffect(handlerUrl, url')
        /\ last' = Event("handleSubmit", TRUE)
        /\ lastSubmit' = [phase |-> "submitted", t |-> Trim(tenant), w |-> "pending"]
     \/ /\ ~SubmitAccepted(tenant)
        /\ last' = Event("handleSubmit", FALSE)
        /\ UNCHANGED <<url, showReset, errorMessage, pending, handlerUrl,
                       lastSubmit>>
  /\ carried' = Settle(carried)
  /\ UNCHANGED <<platform, tenant, refreshing, store, timers, navUrl, alert,
                 exited>>

\* handleSubmit after its await: setItem resolved, or rejected and caught
SetItemDone ==
  /\ ~exited
  /\ pending # <<>>
  /\ Head(pending).op = "set"
  /\ \E ok \in BOOLEAN :
       /\ store' = IF ok THEN ApplyOp(store, Head(pending)) ELSE store
       /\ errorMessage' = IF ok THEN errorMessage ELSE SubmitCatch(errorMessage)
       /\ last' = Event("setItemDone", ok)
       /\ lastSubmit' =
            IF lastSubmit.w = "pending" /\ LastSetIndex(pending) = 1
            THEN [lastSubmit EXCEPT !.w = IF ok THEN "ok" ELSE "failed"]
            ELSE lastSubmit
  /\ pending' = Tail(pending)
  /\ carried' = Settle(carried)
  /\ UNCHANGED <<platform, tenant, url, showReset, refreshing, timers, navUrl,
                 handlerUrl, alert, exited>>

\* Seeded fault: loadTenant clears the url when it finds no usable tenant.
LoadTenantDone_ClearsWhenAbsent ==
  /\ ~exited
  /\ pending # <<>>
  /\ Head(pending).op = "get"
  /\ \E ok \in BOOLEAN :
       /\ IF ok /\ LoadTenantUsable(store)
          THEN /\ tenant' = LoadTenantValue(store.val)
               /\ url' = LoadConstructedUrl(store.val)
          ELSE /\ tenant' = tenant
               /\ url' = <<>>
       /\ last' = Event("loadTenantDone", ok)
  /\ handlerUrl' = BackHandlerEffect(handlerUrl, url')
  /\ pending' = Tail(pending)
  /\ carried' = IF carried.phase = "restarted"
                THEN [carried EXCEPT !.phase = "loaded"]
                ELSE Settle(carried)
  /\ UNCHANGED <<platform, showReset, errorMessage, refreshing, store, timers,
                 navUrl, alert, exited, lastSubmit>>

\* loadTenant after its await: getItem resolved, or rejected and caught
LoadTenantDone ==
  /\ ~exited
  /\ pending # <<>>
  /\ Head(pending).op = "get"
  /\ \E ok \in BOOLEAN :
       /\ IF ok /\ LoadTenantUsable(store)
          THEN /\ tenant' = LoadTenantValue(store.val)
               /\ url' = LoadConstructedUrl(store.val)
          ELSE UNCHANGED <<tenant, url>>
       /\ last' = Event("loadTenantDone", ok)
  /\ handlerUrl' = BackHandlerEffect(handlerUrl, url')
  /\ pending' = Tail(pending)
  /\ carried' = IF carried.phase = "restarted"
                THEN [carried EXCEPT !.phase = "loaded"]
                ELSE Settle(carried)
  /\ UNCHANGED <<platform, showReset, errorMessage, refreshing, store, timers,
                 navUrl, alert, exited, lastSubmit>>

\* handleReset, up to its await
HandleReset ==
  /\ Interactive
  /\ ResetButtonShown
  /\ Len(pending) < MaxPending
  /\ pending' = Append(pending, RemoveOp)
  /\ last' = Event("handleReset", TRUE)
  /\ lastSubmit' = NoSubmit
  /\ carried' = Settle(carried)
  /\ UNCHANGED <<platform, tenant, url, showReset, errorMessage, refreshing,
                 store, timers, navUrl, handlerUrl, alert, exited>>

\* handleReset after its await: removeItem resolved, or rejected and caught
RemoveItemDone ==
  /\ ~exited
  /\ pending # <<>>
  /\ Head(pending).op = "remove"
  /\ \E ok \in BOOLEAN :
       /\ IF ok
          THEN /\ store' = ApplyOp(store, Head(pending))
               /\ tenant' = <<>>
               /\ url' = <<>>
               /\ showReset' = FALSE
               /\ errorMessage' = ""
               /\ navUrl' = <<>>
          ELSE UNCHANGED <<store, tenant, url, showReset, errorMessage, navUrl>>
       /\ last' = Event("removeItemDone", ok)
  /\ handlerUrl' = BackHandlerEffect(handlerUrl, url')
  /\ pending' = Tail(pending)
  /\ carried' = Settle(carried)
  /\ UNCHANGED <<platform, refreshing, timers, alert, exited, lastSubmit>>

\* WebView onNavigationStateChange={handleWebViewNavigation}
HandleWebViewNavigation ==
  /\ ~exited
  /\ WebViewMounted
  /\ \E p \in NavPaths :
       /\ navUrl' = url \o p
       /\ showReset' = IsAuthUrl(url \o p)
  /\ last' = Event("navigation", TRUE)
  /\ carried' = Settle(carried)
  /\ UNCHANGED <<platform, tenant, url, errorMessage, refreshing, store,
                 pending, timers, handlerUrl, alert, exited, lastSubmit>>

\* WebView onLoad
OnLoad ==
  /\ ~exited
  /\ WebViewMounted
  /\ showReset' = OnLoadShowReset(showReset)
  /\ last' = Event("load", TRUE)
  /\ carried' = Settle(carried)
  /\ UNCHANGED <<platform, tenant, url, errorMessage, refreshing, store,
                 pending, timers, navUrl, handlerUrl, alert, exited, lastSubmit>>

\* WebView onError / onHttpError = handleWebViewError
HandleWebViewError ==
  /\ ~exited
  /\ WebViewMounted
  /\ errorMessage' = TenantNotFound
  /\ showReset' = ErrorShowReset(showReset)
  /\ \E e \in {"onError", "onHttpError"} : last' = Event(e, TRUE)
  /\ carried' = Settle(carried)
  /\ UNCHANGED <<platform, tenant, url, refreshing, store, pending, timers,
                 navUrl, handlerUrl, alert, exited, lastSubmit>>

\* Seeded fault: onRefresh without its setTimeout.
OnRefresh_NoTimer ==
  /\ Interactive
  /\ platform # "ios"
  /\ WebViewMounted
  /\ timers < MaxTimers
  /\ refreshing' = TRUE
  /\ timers' = timers
  /\ last' = Event("onRefresh", WebViewMounted)
  /\ carried' = Settle(carried)
  /\ UNCHANGED <<platform, tenant, url, showReset, errorMessage, store, pending,
                 navUrl, handlerUrl, alert, exited, lastSubmit>>

\* RefreshControl onRefresh (the ScrollView of the non-iOS branch)
OnRefresh ==
  /\ Interactive
  /\ platform # "ios"
  /\ WebViewMounted
  /\ timers < MaxTimers
  /\ refreshing' = TRUE
  /\ timers' = timers + 1
  /\ last' = Event("onRefresh", WebViewMounted)
  /\ carried' = Settle(carried)
  /\ UNCHANGED <<platform, tenant, url, showReset, errorMessage, store, pending,
                 navUrl, handlerUrl, alert, exited, lastSubmit>>

\* onRefresh: setTimeout(() => setRefreshing(false), 1000)
RefreshTimeout ==
  /\ ~exited
  /\ timers > 0
  /\ refreshing' = FALSE
  /\ timers' = timers - 1
  /\ last' = Event("refreshTimeout", TRUE)
  /\ carried' = Settle(carried)
  /\ UNCHANGED <<platform, tenant, url, showReset, errorMessage, store, pending,
                 navUrl, handlerUrl, alert, exited, lastSubmit>>

\* hardwareBackPress: backAction; returning false lets the platform exit
BackPress ==
  /\ Interactive
  /\ IF BackActionIntercepts(handlerUrl)
     THEN alert' = TRUE /\ exited' = FALSE
     ELSE alert' = FALSE /\ exited' = TRUE
  /\ last' = Event("backPress", BackActionIntercepts(handlerUrl))
  /\ carried' = Settle(carried)
  /\ UNCHANGED <<platform, tenant, url, showReset, errorMessage, refreshing,
                 store, pending, timers, navUrl, handlerUrl, lastSubmit>>

\* Alert button 'Cancel': onPress: () => null
AlertCancel ==
  /\ ~exited
  /\ alert
  /\ alert' = FALSE
  /\ last' = Event("alertCancel", TRUE)
  /\ carried' = Settle(carried)
  /\ UNCHANGED <<platform, tenant, url, showReset, errorMessage, refreshing,
                 store, pending, timers, navUrl, handlerUrl, exited, lastSubmit>>

\* Alert button 'Yes': onPress: () => BackHandler.exitApp()
AlertYes ==
  /\ ~exited
  /\ alert
  /\ alert' = FALSE
  /\ exited' = TRUE
  /\ last' = Event("alertYes", TRUE)
  /\ carried' = Settle(carried)
  /\ UNCHANGED <<platform, tenant, url, showReset, errorMessage, refreshing,
                 store, pending, timers, navUrl, handlerUrl, lastSubmit>>

\* The process ends (exit, or killed) and the app is launched again: the
\* component mounts with its initial state and loadTenant issues its read.
\* Each storage operation the old process left in flight has run or is lost.
\* The history carries the session's last submit over, and keeps a carried
\* submit when the session ended before issuing anything but its read.
Restart ==
  /\ \E oks \in [1..Len(pending) -> BOOLEAN] :
       /\ store' = FlushStore(store, pending, oks)
       /\ carried' =
            IF lastSubmit.phase = "submitted"
            THEN [phase |-> "restarted", t |-> lastSubmit.t,
                  w |-> IF lastSubmit.w = "pending"
                        THEN (IF oks[LastSetIndex(pending)] THEN "ok" ELSE "failed")
                        ELSE lastSubmit.w]
            ELSE IF carried.phase = "restarted" /\ pending = <<GetOp>>
                 THEN carried
                 ELSE NoSubmit
  /\ tenant' = <<>>
  /\ url' = <<>>
  /\ showReset' = FALSE
  /\ errorMessage' = ""
  /\ refreshing' = FALSE
  /\ pending' = <<GetOp>>
  /\ timers' = 0
  /\ navUrl' = <<>>
  /\ handlerUrl' = <<>>
  /\ alert' = FALSE
  /\ exited' = FALSE
  /\ last' = Event("restart", TRUE)
  /\ lastSubmit' = NoSubmit
  /\ UNCHANGED platform

Next ==
  \/ ChangeText
  \/ HandleSubmit
  \/ SetItemDone
  \/ LoadTenantDone
  \/ HandleReset
  \/ RemoveItemDone
  \/ HandleWebViewNavigation
  \/ OnLoad
  \/ HandleWebViewError
  \/ OnRefresh
  \/ RefreshTimeout
  \/ BackPress
  \/ AlertCancel
  \/ AlertYes
  \/ Restart

Spec == Init /\ [][Next]_vars

\* The launches of the refresh check: nothing persisted, or a plain tenant
\* (onRefresh and its timer read neither the record nor the tenant text).
FairInit == Init /\ store \in {NoRecord, Record(<<"a">>)}

\* The timer of setTimeout fires: a pending callback is eventually run.
FairSpec == FairInit /\ [][Next]_vars /\ WF_vars(RefreshTimeout)

\* A step in which no storage operation rejects or is lost.
NoFailure ==
  /\ last'.ev \in {"loadTenantDone", "setItemDone", "removeItemDone"} => last'.ok
  /\ last'.ev = "restart" =>
        store' = FlushStore(store, pending, [i \in 1..Len(pending) |-> TRUE])

\* The steps of the program with a storage that never fails.
ReliableNext ==
  \/ ChangeText
  \/ HandleSubmit
  \/ SetItemDone /\ NoFailure
  \/ LoadTenantDone /\ NoFailure
  \/ HandleReset
  \/ RemoveItemDone /\ NoFailure
  \/ HandleWebViewNavigation
  \/ OnLoad
  \/ HandleWebViewError
  \/ OnRefresh
  \/ RefreshTimeout
  \/ BackPress
  \/ AlertCancel
  \/ AlertYes
  \/ Restart /\ NoFailure

ReliableSpec == Init /\ [][ReliableNext]_vars

\* ---------------------------------------------------------------- claims
\* The origin the specification gives for a trimmed tenant identifier t.
Origin(t) == <<"https://">> \o t \o <<".olympicatechnologies.co.in">>

\* u contains /accounts/log-in or /accounts/log-out.
HasAuthMarker(u) ==
  \E i \in 1..Len(u) :
    /\ i < Len(u)
    /\ u[i] = "/accounts"
    /\ u[i + 1] \in {"/log-in", "/log-out"}

\* C1: after a reset action has been fully processed (its storage delete has
\* resolved or rejected and handleReset has returned), url, tenant and
\* errorMessage are empty, showReset is false and the record is absent.
C1_ResetClearsEverything ==
  last.ev = "removeItemDone" =>
    /\ url = <<>>
    /\ tenant = <<>>
    /\ errorMessage = ""
    /\ ~showReset
    /\ ~store.present

\* C2: when the storage delete of a reset fails, handleReset still clears
\* tenant, url, errorMessage and showReset (the entry form is shown).
C2_DeleteFailureDoesNotBlock ==
  (last.ev = "removeItemDone" /\ ~last.ok) =>
    /\ tenant = <<>>
    /\ url = <<>>
    /\ errorMessage = ""
    /\ ~showReset

\* C3: a failing storage write does not block the submit: the submit of a
\* non-blank text sets url to the origin of the trimmed text with no error and
\* no reset affordance; the failure of the write changes none of tenant, url,
\* showReset and errorMessage; so when the write fails right after the submit
\* the machine is Active at that origin.
C3_WriteFailureDoesNotBlock ==
  [][ /\ (last'.ev = "handleSubmit" /\ last'.ok) =>
           /\ url' = Origin(Trim(tenant))
           /\ errorMessage' = ""
           /\ ~showReset'
      /\ (last'.ev = "setItemDone" /\ ~last'.ok) =>
           /\ UNCHANGED <<tenant, url, showReset, errorMessage, store>>
      /\ (last.ev = "handleSubmit" /\ last.ok /\ last'.ev = "setItemDone" /\ ~last'.ok) =>
           /\ url' = Origin(Trim(tenant'))
           /\ errorMessage' = ""
           /\ ~showReset'
    ]_vars

C3_Witness ==
  /\ last.ev = "setItemDone"
  /\ ~last.ok
  /\ lastSubmit.w = "failed"
  /\ tenant = <<" ", "a">>
  /\ url = Origin(<<"a">>)
  /\ errorMessage = ""
  /\ ~showReset
  /\ ~store.present

\* C4: submitting a non-blank text t from the entry form sets url to exactly
\* https://<trim(t)>.olympicatechnologies.co.in (scheme, tenant, suffix and
\* nothing after), clears errorMessage and issues the write of trim(t); when
\* that write completes successfully the record holds trim(t).
C4_SubmitSetsUrlAndPersists ==
  [][ /\ (last'.ev = "handleSubmit" /\ last'.ok) =>
           /\ Trim(tenant) # <<>>
           /\ url' = Origin(Trim(tenant))
           /\ url'[Len(url')] = ".olympicatechnologies.co.in"
           /\ Len(url') = Len(Trim(tenant)) + 2
           /\ errorMessage' = ""
           /\ pending' = Append(pending, [op |-> "set", val |-> Trim(tenant)])
           /\ lastSubmit'.t = Trim(tenant)
      /\ (last'.ev = "setItemDone" /\ last'.ok) =>
           /\ store'.present
           /\ store'.val = Head(pending).val
           /\ (lastSubmit.w = "pending" /\ lastSubmit'.w = "ok" =>
                 store'.val = lastSubmit.t)
    ]_vars

C4_Witness ==
  /\ last.ev = "setItemDone"
  /\ last.ok
  /\ lastSubmit.w = "ok"
  /\ tenant = <<"b", " ">>
  /\ url = <<"https://", "b", ".olympicatechnologies.co.in">>
  /\ errorMessage = ""
  /\ store = [present |-> TRUE, val |-> <<"b">>]

\* C5 as stated: after submit(t) and a restart, the completed startup read
\* leaves the machine Active with url = resolve(trim(t)).
C5_RoundTripOriginal ==
  (last.ev = "loadTenantDone" /\ carried.phase = "loaded") =>
    /\ url = Origin(carried.t)
    /\ errorMessage = ""
    /\ ~showReset

\* C5 as amended: after submit(t) whose storage write succeeded, followed by
\* a restart, a startup read that completes successfully leaves tenant =
\* trim(t) and url = resolve(trim(t)): the browser view of that tenant.
C5_RoundTrip ==
  (last.ev = "loadTenantDone" /\ last.ok /\ carried.phase = "loaded"
     /\ carried.w = "ok") =>
    /\ carried.t # <<>>
    /\ tenant = carried.t
    /\ url = Origin(carried.t)
    /\ store = [present |-> TRUE, val |-> carried.t]

C5_Witness ==
  /\ last.ev = "loadTenantDone"
  /\ last.ok
  /\ carried.phase = "loaded"
  /\ carried.w = "ok"
  /\ carried.t = <<"b">>
  /\ url = Origin(<<"b">>)
  /\ errorMessage = ""

\* C6: when the startup read completes with a present, non-blank value s the
\* machine is Active with tenant = trim(s) and url = resolve(trim(s)); when it
\* returns absent or blank, or fails, url is empty and errorMessage is empty.
C6_StartupRestore ==
  last.ev = "loadTenantDone" =>
    IF last.ok /\ store.present /\ Trim(store.val) # <<>>
    THEN /\ tenant = Trim(store.val)
         /\ url = Origin(Trim(store.val))
         /\ errorMessage = ""
         /\ ~showReset
    ELSE /\ url = <<>>
         /\ errorMessage = ""

\* C7: after any load-error or HTTP-error event of the browser surface,
\* errorMessage is "Tenant not found" and showReset is true.
C7_ErrorEventSetsError ==
  last.ev \in {"onError", "onHttpError"} =>
    /\ errorMessage = "Tenant not found"
    /\ showReset
    /\ url # <<>>

C7_Witness ==
  /\ last.ev = "onHttpError"
  /\ errorMessage = "Tenant not found"
  /\ showReset
  /\ url = Origin(<<"a">>)
  /\ navUrl = url \o <<"/log-in", "/accounts">>

\* C8: from a state with url and errorMessage both non-empty, every step of
\* the running session other than the completion of a reset leaves url and
\* errorMessage non-empty, and url becomes empty only by that completion.
C8_ErrorStateOnlyLeftByReset ==
  [][ (url # <<>> /\ errorMessage # "" /\ last'.ev # "restart") =>
        /\ (last'.ev # "removeItemDone" => url' # <<>> /\ errorMessage' # "")
        /\ (url' = <<>> => last'.ev = "removeItemDone" /\ last'.ok)
        /\ errorMessage' \in {errorMessage, ""}
    ]_vars

C8_Witness ==
  /\ url # <<>>
  /\ errorMessage = "Tenant not found"
  /\ last.ev \in {"refreshTimeout", "alertCancel", "loadTenantDone", "setItemDone"}
  /\ pending = <<>>

\* C9: a navigation event sets showReset to whether its URL contains
\* /accounts/log-in or /accounts/log-out, a load-completion event sets it to
\* false, and neither changes tenant, url, errorMessage or the record.
C9_NavigationObservation ==
  [][ /\ last'.ev = "navigation" =>
           /\ showReset' = HasAuthMarker(navUrl')
           /\ UNCHANGED <<tenant, url, errorMessage, store, pending>>
      /\ last'.ev = "load" =>
           /\ ~showReset'
           /\ UNCHANGED <<tenant, url, errorMessage, store, pending>>
    ]_vars

C9_Witness ==
  /\ last.ev = "navigation"
  /\ showReset
  /\ errorMessage = ""
  /\ navUrl = url \o <<"/accounts", "/log-out">>

\* C10: the installed back handler always holds the current url; a back press
\* with url non-empty opens the prompt and does not terminate, a back press
\* with url empty terminates with no prompt; the process terminates only by
\* the prompt's Yes or by a back press with url empty, never by Cancel.
C10_ExitInterception ==
  /\ [](handlerUrl = url)
  /\ [][ /\ last'.ev = "backPress" =>
              IF url # <<>> THEN alert' /\ ~exited' ELSE ~alert' /\ exited'
         /\ (~exited /\ exited') =>
              \/ last'.ev = "alertYes" /\ alert
              \/ last'.ev = "backPress" /\ url = <<>>
         /\ (~alert /\ alert') => last'.ev = "backPress" /\ url # <<>>
         /\ last'.ev = "alertCancel" => ~exited' /\ ~alert'
       ]_vars

C10_Witness ==
  /\ last.ev = "alertYes"
  /\ exited
  /\ url # <<>>
  /\ handlerUrl = url

\* t is a tenant identifier: non-empty, no leading or trailing whitespace.
IsIdentifier(t) == t # <<>> /\ t[1] # " " /\ t[Len(t)] # " "

\* The tenant embedded in the URL u: what stands between scheme and suffix.
EmbeddedTenant(u) == SubSeq(u, 2, Len(u) - 1)

\* C11 as stated: whenever url is non-empty it is the origin of the tenant
\* value the state machine holds.
C11_UrlMatchesTenantOriginal ==
  url # <<>> => url = Origin(tenant)

\* C11 as amended: whenever url is non-empty it is the origin of the trimmed
\* tenant text the state machine holds.
C11_UrlMatchesTrimmedTenant ==
  url # <<>> =>
    /\ Trim(tenant) # <<>>
    /\ url = Origin(Trim(tenant))

C11_Witness ==
  /\ last.ev = "handleSubmit"
  /\ last.ok
  /\ tenant = <<"b", " ">>
  /\ url = Origin(<<"b">>)

C13_UrlOnlyEmptiedByReset ==
  [][ (url # <<>> /\ last'.ev # "restart") =>
        /\ (url' = <<>> => last'.ev = "removeItemDone" /\ last'.ok)
        /\ (last'.ev \in {"navigation", "load", "onError", "onHttpError",
                          "onRefresh", "refreshTimeout", "backPress",
                          "alertCancel", "alertYes", "loadTenantDone",
                          "setItemDone", "handleReset"} => url' # <<>>)
    ]_vars

C13_Witness ==
  /\ last.ev = "loadTenantDone"
  /\ ~LoadTenantUsable(store)
  /\ url = Origin(<<"a">>)
  /\ pending # <<>>

\* C14: when a non-blank tenant is persisted at startup, no submit from the
\* entry form is accepted while the startup read is still in flight.
C14_NoSubmitDuringRestore ==
  ~ /\ pending # <<>>
    /\ Head(pending).op = "get"
    /\ store.present
    /\ Trim(store.val) # <<>>
    /\ last.ev = "handleSubmit"
    /\ last.ok

\* C15: submitting an empty or whitespace-only text is a no-op: url, tenant,
\* showReset, errorMessage and refreshing are unchanged, no storage write is
\* issued and the record is unchanged.
C15_BlankSubmitIsNoOp ==
  [][ (last'.ev = "handleSubmit" /\ Trim(tenant) = <<>>) =>
        /\ ~last'.ok
        /\ UNCHANGED <<url, tenant, showReset, errorMessage, refreshing,
                       pending, store, handlerUrl, timers>>
    ]_vars

C15_Witness ==
  /\ last.ev = "handleSubmit"
  /\ ~last.ok
  /\ tenant = <<" ">>
  /\ url = <<>>
  /\ pending = <<>>
  /\ store = [present |-> TRUE, val |-> <<" ">>]

\* C16: no storage operation is issued while an earlier one is in flight:
\* at most one operation is ever in flight.
C16_NoOverlappingOperations ==
  Len(pending) <= 1

\* C17: whenever url is non-empty, no error is shown and the surface's most
\* recently reported navigation URL contains /accounts/log-in or
\* /accounts/log-out, showReset is true.
C17_ResetShownOnAuthPage ==
  (url # <<>> /\ errorMessage = "" /\ HasAuthMarker(navUrl)) => showReset

\* C18: with a storage that never fails, whenever no storage operation is in
\* flight and url is non-empty, the record is present and url is the origin
\* of the record (stated for the states whose record is an identifier).
C18_QuiescentConsistency ==
  (pending = <<>> /\ url # <<>> /\ (store.present => IsIdentifier(store.val))) =>
    /\ store.present
    /\ url = Origin(store.val)

\* C19: a refresh gesture sets refreshing, issues the reload to the mounted
\* surface and starts a timer; the timer's callback clears refreshing; neither
\* changes tenant, url, showReset, errorMessage, the record or the operations
\* in flight; while refreshing is set a timer is pending, and (the timer
\* firing) refreshing becomes false again unless the process ends first.
C19_ManualRefresh ==
  /\ [][ /\ last'.ev = "onRefresh" =>
              /\ refreshing'
              /\ last'.ok
              /\ url # <<>> /\ errorMessage = ""
              /\ timers' = timers + 1
              /\ UNCHANGED <<tenant, url, showReset, errorMessage, store, pending>>
         /\ last'.ev = "refreshTimeout" =>
              /\ ~refreshing'
              /\ timers' = timers - 1
              /\ UNCHANGED <<tenant, url, showReset, errorMessage, store, pending>>
       ]_vars
  /\ [](refreshing => timers > 0)
  /\ (refreshing ~> (~refreshing \/ exited))

C19_Witness ==
  /\ last.ev = "refreshTimeout"
  /\ ~refreshing
  /\ timers = 1
  /\ url # <<>>
  /\ showReset

====
